---- MODULE Spec2Model ----
(***************************************************************************)
(* Model of the invoice extraction core:                                   *)
(*   src/extraction/extract_invoice.py   submit-and-poll client            *)
(*   src/extraction/normalize_output.py  typed-value unwrapping            *)
(*   src/extraction/service.py           composition                       *)
(*                                                                         *)
(* JSON values are tagged records [t, v]: t is the Python type of the      *)
(* parsed value ("null", "str", "num", "list", "dict") and v its content   *)
(* (a string, an integer, a sequence of JSON values, a function from key   *)
(* names to JSON values).  Numbers are integers: the code never computes   *)
(* with them, it only passes them through.                                 *)
(***************************************************************************)
EXTENDS Integers, Sequences, FiniteSets, TLC

----------------------------------------------------------------------------
(* JSON values and the Python operations the code applies to them *)

JNull == [t |-> "null", v |-> 0]
JStr(s) == [t |-> "str", v |-> s]
JNum(n) == [t |-> "num", v |-> n]
JList(q) == [t |-> "list", v |-> q]
JDict(f) == [t |-> "dict", v |-> f]

(* a key that a dict literal leaves out *)
Absent == [t |-> "absent", v |-> 0]

(* the dict holding the entries of f that are not Absent *)
MkObj(f) == JDict([k \in {n \in DOMAIN f : f[n].t # "absent"} |-> f[k]])

(* outcome of a call: a returned value or a raised exception *)
Ret(val) ==
  [kind |-> "return", exc |-> "", msg |-> "", status |-> 0, body |-> "", val |-> val]
Raise(exc, msg) ==
  [kind |-> "raise", exc |-> exc, msg |-> msg, status |-> 0, body |-> "", val |-> JNull]
RaiseHttp(exc, msg, status, body) ==
  [kind |-> "raise", exc |-> exc, msg |-> msg, status |-> status, body |-> body, val |-> JNull]
NoOutcome ==
  [kind |-> "none", exc |-> "", msg |-> "", status |-> 0, body |-> "", val |-> JNull]

(* Python truth value of x: None, "", 0, [] and {} are false *)
Truthy(x) ==
  CASE x.t = "null" -> FALSE
    [] x.t = "str"  -> x.v # ""
    [] x.t = "num"  -> x.v # 0
    [] x.t = "list" -> Len(x.v) > 0
    [] x.t = "dict" -> DOMAIN x.v # {}

(* the characters of the strings the model uses, for iteration and [0] *)
Chars(s) ==
  CASE s = ""      -> <<>>
    [] s = "A"     -> <<"A">>
    [] s = "INV"   -> <<"I", "N", "V">>
    [] s = "USD"   -> <<"U", "S", "D">>
    [] OTHER       -> <<s>>

(* the keys of a dict as a sequence, in one fixed order *)
RECURSIVE KeySeq(_)
KeySeq(S) ==
  IF S = {} THEN <<>>
  ELSE LET k == CHOOSE e \in S : TRUE IN <<JStr(k)>> \o KeySeq(S \ {k})

(* Python `k in x` for a string k; no model string properly contains a key *)
In(k, x) ==
  CASE x.t = "dict" -> k \in DOMAIN x.v
    [] x.t = "list" -> \E i \in 1..Len(x.v) : x.v[i] = JStr(k)
    [] x.t = "str"  -> x.v = k
    [] OTHER        -> FALSE

(* Python x[k] for a string k *)
Subscript(x, k) ==
  CASE x.t = "dict" ->
         IF k \in DOMAIN x.v THEN Ret(x.v[k]) ELSE Raise("KeyError", k)
    [] x.t \in {"list", "str"} -> Raise("TypeError", "indices must be integers")
    [] OTHER -> Raise("TypeError", "not subscriptable")

(* Python x[0] *)
Subscript0(x) ==
  CASE x.t = "list" ->
         IF Len(x.v) > 0 THEN Ret(x.v[1]) ELSE Raise("IndexError", "list index out of range")
    [] x.t = "str" ->
         IF Len(Chars(x.v)) > 0 THEN Ret(JStr(Chars(x.v)[1]))
         ELSE Raise("IndexError", "string index out of range")
    [] x.t = "dict" -> Raise("KeyError", "0")
    [] OTHER -> Raise("TypeError", "not subscriptable")

(* Python x.get(k) *)
MethodGet(x, k) ==
  IF x.t = "dict"
  THEN Ret(IF k \in DOMAIN x.v THEN x.v[k] ELSE JNull)
  ELSE Raise("AttributeError", "get")

(* Python `for e in x`: the sequence of elements, or TypeError *)
Iterate(x) ==
  CASE x.t = "list" -> Ret(x)
    [] x.t = "dict" -> Ret(JList(KeySeq(DOMAIN x.v)))
    [] x.t = "str"  -> Ret(JList([i \in 1..Len(Chars(x.v)) |-> JStr(Chars(x.v)[i])]))
    [] OTHER        -> Raise("TypeError", "not iterable")

----------------------------------------------------------------------------
(* src/extraction/normalize_output.py *)

SlotOrder ==
  <<"valueString", "valueNumber", "valueDate", "valueCurrency", "valueArray", "valueObject">>

(* variant: the currency slot yields the whole currency object *)
SlotValue_WholeCurrency(field, slot) ==
  Subscript(field, slot)

(* the value of one slot of a field: the currency slot yields its amount *)
SlotValue(field, slot) ==
  LET s == Subscript(field, slot) IN
  IF s.kind = "raise" THEN s
  ELSE IF slot = "valueCurrency" THEN MethodGet(s.val, "amount")
  ELSE s

(* the first slot at or after position i that the field carries, 0 if none *)
RECURSIVE FirstSlot(_, _)
FirstSlot(field, i) ==
  IF i > Len(SlotOrder) THEN 0
  ELSE IF In(SlotOrder[i], field) THEN i
  ELSE FirstSlot(field, i + 1)

get_value(field) ==
  IF ~Truthy(field) THEN Ret(JNull)
  ELSE IF field.t = "num" THEN Raise("TypeError", "not iterable")
  ELSE LET i == FirstSlot(field, 1) IN
       IF i = 0 THEN Ret(JNull) ELSE SlotValue(field, SlotOrder[i])

(* get_value(obj.get(name)) *)
GetField(obj, name) ==
  LET g == MethodGet(obj, name) IN
  IF g.kind = "raise" THEN g ELSE get_value(g.val)

ItemAttrs == <<"Description", "Quantity", "UnitPrice", "Amount">>
ItemKeys == <<"description", "quantity", "unit_price", "amount">>

(* one pass of the items loop: Absent for a skipped entry *)
LineItem(item) ==
  LET obj == get_value(item) IN
  IF obj.kind = "raise" THEN obj
  ELSE IF ~Truthy(obj.val) THEN Ret(Absent)
  ELSE LET a == [i \in 1..4 |-> GetField(obj.val, ItemAttrs[i])] IN
       IF \E i \in 1..4 : a[i].kind = "raise"
       THEN a[CHOOSE i \in 1..4 : a[i].kind = "raise" /\ \A j \in 1..(i-1) : a[j].kind # "raise"]
       ELSE Ret(JDict([k \in {ItemKeys[i] : i \in 1..4} |->
                         a[CHOOSE i \in 1..4 : ItemKeys[i] = k].val]))

(* the items loop over entries i..Len(q), appending to acc *)
RECURSIVE ItemsLoop(_, _, _)
ItemsLoop(q, i, acc) ==
  IF i > Len(q) THEN Ret(JList(acc))
  ELSE LET r == LineItem(q[i]) IN
       IF r.kind = "raise" THEN r
       ELSE IF r.val.t = "absent" THEN ItemsLoop(q, i + 1, acc)
       ELSE ItemsLoop(q, i + 1, Append(acc, r.val))

ScalarFields ==
  <<"InvoiceId", "VendorName", "VendorAddress", "CustomerName",
    "InvoiceDate", "DueDate", "InvoiceTotal", "TotalTax">>
ScalarKeys ==
  <<"invoice_id", "vendor_name", "vendor_address", "customer_name",
    "invoice_date", "due_date", "total_amount", "total_tax">>

(* the part of normalize_invoice after doc and fields are bound *)
NormalizeDoc(doc, fields) ==
  LET n == Len(ScalarFields)
      s == [i \in 1..n |-> GetField(fields, ScalarFields[i])]
  IN
  IF \E i \in 1..n : s[i].kind = "raise"
  THEN s[CHOOSE i \in 1..n : s[i].kind = "raise" /\ \A j \in 1..(i-1) : s[j].kind # "raise"]
  ELSE
  LET ir == GetField(fields, "Items") IN
  IF ir.kind = "raise" THEN ir
  ELSE
  LET items_raw == IF Truthy(ir.val) THEN ir.val ELSE JList(<<>>)
      it == Iterate(items_raw)
  IN
  IF it.kind = "raise" THEN it
  ELSE
  LET items == ItemsLoop(it.val.v, 1, <<>>) IN
  IF items.kind = "raise" THEN items
  ELSE
  LET conf == MethodGet(doc, "confidence") IN
  IF conf.kind = "raise" THEN conf
  ELSE Ret(JDict([k \in {ScalarKeys[i] : i \in 1..n} \cup {"items", "confidence"} |->
                    IF k = "items" THEN items.val
                    ELSE IF k = "confidence" THEN conf.val
                    ELSE s[CHOOSE i \in 1..n : ScalarKeys[i] = k].val]))

normalize_invoice(raw_json) ==
  LET ar == Subscript(raw_json, "analyzeResult") IN
  IF ar.kind = "raise" THEN ar
  ELSE
  LET docs == Subscript(ar.val, "documents") IN
  IF docs.kind = "raise" THEN docs
  ELSE
  LET doc == Subscript0(docs.val) IN
  IF doc.kind = "raise" THEN doc
  ELSE
  LET fields == Subscript(doc.val, "fields") IN
  IF fields.kind = "raise" THEN fields
  ELSE NormalizeDoc(doc.val, fields.val)

----------------------------------------------------------------------------
(* src/extraction/extract_invoice.py and src/extraction/service.py *)

AZURE_API_VERSION == "2023-07-31"
MAX_WAIT_SECONDS == 60
POLL_INTERVAL == 1

(* bounds of the environment *)
MaxBytes == 1
MaxLatency == 1
MaxJitter == 1

VARIABLES
  pdf_bytes,      \* argument of process_invoice_bytes
  env,            \* process environment: DOCINT_ENDPOINT, DOCINT_KEY (JNull = unset)
  pc,             \* position of the call
  now,            \* wall clock, in seconds
  start_time,     \* extract_invoice: start_time
  elapsed,        \* extract_invoice: elapsed, as computed at the top of the loop
  response,       \* extract_invoice: response of the POST
  operation_url,  \* extract_invoice: operation_url
  poll_resp,      \* extract_invoice: poll_resp, the response of the last GET
  extract_out,    \* outcome of extract_invoice
  raw_result,     \* process_invoice_bytes: raw_result
  outcome,        \* outcome of process_invoice_bytes
  post_req,       \* the POST request issued, if any
  get_req,        \* the last GET request issued, if any
  nPost, nGet, nSleep, nExtract, nNormalize,   \* numbers of requests, sleeps, calls
  allRunning,     \* every poll response so far parsed to status "running"
  norm_call,      \* normalizer harness: function and argument
  norm_result,    \* normalizer harness: outcome of the call
  request,        \* HTTP front end: the upload not yet read by the endpoint
  http_resp,      \* HTTP front end: the response of the endpoint
  nProcess,        \* HTTP front end: number of calls of process_invoice_bytes
  inv,            \* concurrent invocations: the local variables of each
  net             \* concurrent invocations: what the backend saw and answered of each

vars ==
  <<pdf_bytes, env, pc, now, start_time, elapsed, response, operation_url, poll_resp,
    extract_out, raw_result, outcome, post_req, get_req, nPost, nGet, nSleep, nExtract, nNormalize,
    allRunning, norm_call, norm_result, request, http_resp, nProcess, inv, net>>

(* the variables of the HTTP front end *)
apiVars == <<request, http_resp, nProcess>>

(* the variables of the concurrent invocations *)
concVars == <<inv, net>>

Bytes == {37}
ByteStrings == UNION {[1..n -> Bytes] : n \in 0..MaxBytes}

EnvValues == {JNull, JStr(""), JStr("https://ep")}
KeyValues == {JNull, JStr(""), JStr("key")}

NoResponse == [status_code |-> 0, headers |-> <<>>, text |-> ""]
NoRequest == [method |-> "none", url |-> "", key |-> "", ctype |-> "", data |-> <<>>]
NoPoll == [parsed |-> FALSE, json |-> JNull]
NoUpload == [content_type |-> "", readable |-> FALSE, data |-> <<>>]
NoHttp == [status |-> 0, detail |-> "", arg |-> <<"", 0, "">>, content |-> JNull]
NoCalls == <<>>
NoNet == <<>>

(* the analyze URL built from the endpoint *)
AnalyzeUrl(endpoint) ==
  endpoint \o "/formrecognizer/documentModels/prebuilt-invoice:analyze"
           \o "?api-version=" \o AZURE_API_VERSION

(* responses the backend can give to the POST *)
HeaderSets ==
  { <<>>,
    [h \in {"Operation-Location"} |-> ""],
    [h \in {"Operation-Location"} |-> "https://op"] }
PostResponses ==
  [status_code : {202}, headers : HeaderSets, text : {""}] \cup
  [status_code : {200, 400}, headers : HeaderSets, text : {"", "Bad request"}]

(* raw results a succeeded poll can carry *)
ItemObj(d) ==
  MkObj([type |-> JStr("object"), valueObject |-> d])
FullItem ==
  ItemObj(MkObj([Description |-> MkObj([valueString |-> JStr("A")]),
                 Quantity |-> MkObj([valueNumber |-> JNum(2)]),
                 UnitPrice |-> MkObj([valueCurrency |-> MkObj([amount |-> JNum(5)])]),
                 Amount |-> MkObj([valueCurrency |-> MkObj([amount |-> JNum(10)])])]))
CurrencyField(c) ==
  MkObj([type |-> JStr("currency"), valueCurrency |-> c])
GoodFields ==
  MkObj([InvoiceId |-> MkObj([valueString |-> JStr("INV")]),
         InvoiceTotal |-> CurrencyField(MkObj([amount |-> JNum(123456),
                                                currencyCode |-> JStr("USD")])),
         Items |-> MkObj([valueArray |-> JList(<<FullItem>>)])])
Succeeded(ar) ==
  MkObj([status |-> JStr("succeeded"), analyzeResult |-> ar])
Documents(docs) ==
  MkObj([documents |-> JList(docs)])
Document(fields, conf) ==
  MkObj([fields |-> fields, confidence |-> conf])
PipelineResults ==
  { Succeeded(Documents(<<Document(GoodFields, JNum(1))>>)),
    Succeeded(Documents(<<>>)),
    Succeeded(Absent) }

(* responses the backend can give to a GET: an unparseable body or a JSON value *)
PollResponses ==
  {[parsed |-> FALSE, json |-> JNull]} \cup
  [parsed : {TRUE},
   json : PipelineResults \cup
          { MkObj([status |-> JStr("running")]),
            MkObj([status |-> JStr("notStarted")]),
            MkObj([status |-> JStr("Succeeded")]),
            MkObj([status |-> JNull]),
            JDict(<<>>),
            MkObj([status |-> JStr("failed"),
                   error |-> MkObj([code |-> JStr("SomeError")])]),
            JList(<<>>) }]

Init ==
  /\ pdf_bytes \in ByteStrings
  /\ env \in [DOCINT_ENDPOINT : EnvValues, DOCINT_KEY : KeyValues]
  /\ pc = "start"
  /\ now = 0
  /\ start_time = 0
  /\ elapsed = 0
  /\ response = NoResponse
  /\ operation_url = ""
  /\ poll_resp = NoPoll
  /\ extract_out = NoOutcome
  /\ raw_result = JNull
  /\ outcome = NoOutcome
  /\ post_req = NoRequest
  /\ get_req = NoRequest
  /\ nPost = 0 /\ nGet = 0 /\ nSleep = 0 /\ nExtract = 0 /\ nNormalize = 0
  /\ allRunning = TRUE
  /\ norm_call = [fn |-> "none", arg |-> JNull]
  /\ norm_result = NoOutcome
  /\ request = NoUpload
  /\ http_resp = NoHttp
  /\ nProcess = 0
  /\ inv = NoCalls
  /\ net = NoNet

(* variant: the emptiness check is missing *)
IsEmptyBytes_Never(b) == FALSE

(* `not pdf_bytes` *)
IsEmptyBytes(b) == b = <<>>

(* variant: only an unset variable counts as missing, an empty one does not *)
ConfigMissing_UnsetOnly(e) == e.DOCINT_ENDPOINT = JNull \/ e.DOCINT_KEY = JNull

(* `not endpoint or not key` *)
ConfigMissing(e) == ~Truthy(e.DOCINT_ENDPOINT) \/ ~Truthy(e.DOCINT_KEY)

(* variant: the elapsed time is compared with twice the budget *)
TimedOut_DoubleBudget(el) == el > 2 * MAX_WAIT_SECONDS

(* variant: the budget is exceeded as soon as it is reached *)
TimedOut_Inclusive(el) == el >= MAX_WAIT_SECONDS

(* `elapsed > MAX_WAIT_SECONDS` *)
TimedOut(el) == el > MAX_WAIT_SECONDS

(* variant: only the analyzeResult payload is returned *)
SuccessReturn_PayloadOnly(result_json) == Subscript(result_json, "analyzeResult")

(* `return result_json` *)
SuccessReturn(result_json) == Ret(result_json)

(* variant: process_invoice_bytes wraps an error of a step in an error of its own *)
Finish_Wrapped(e, o) ==
  /\ extract_out' = e
  /\ outcome' = IF o.kind = "raise" /\ e # NoOutcome
                THEN Raise("RuntimeError", "Invoice processing failed.")
                ELSE o
  /\ pc' = "done"

(* process_invoice_bytes ends with outcome o; e is the outcome of extract_invoice *)
Finish(e, o) ==
  /\ extract_out' = e
  /\ outcome' = o
  /\ pc' = "done"

(* process_invoice_bytes up to the POST: the emptiness check, then extract_invoice's
   configuration check and the submission *)
ProcessInvoiceBytes ==
  /\ pc = "start"
  /\ IF IsEmptyBytes(pdf_bytes)
     THEN /\ Finish(NoOutcome, Raise("ValueError", "PDF bytes are empty."))
          /\ UNCHANGED <<post_req, nPost, nExtract>>
     ELSE /\ nExtract' = nExtract + 1
          /\ IF ConfigMissing(env)
             THEN /\ LET e == Raise("ValueError",
                                    "Missing DOCINT_ENDPOINT or DOCINT_KEY environment variables.")
                     IN Finish(e, e)
                  /\ UNCHANGED <<post_req, nPost>>
             ELSE /\ post_req' = [method |-> "POST",
                                  url |-> AnalyzeUrl(env.DOCINT_ENDPOINT.v),
                                  key |-> env.DOCINT_KEY.v,
                                  ctype |-> "application/pdf",
                                  data |-> pdf_bytes]
                  /\ nPost' = nPost + 1
                  /\ pc' = "post"
                  /\ UNCHANGED <<extract_out, outcome>>
  /\ UNCHANGED <<pdf_bytes, env, now, start_time, elapsed, response, operation_url,
                 poll_resp, raw_result, get_req, nGet, nSleep, nNormalize, allRunning,
                 norm_call, norm_result, apiVars, concVars>>

(* variant: every 2xx status is taken as accepted *)
CheckSubmit_Any2xx(resp) ==
  IF resp.status_code \notin {200, 202}
  THEN RaiseHttp("RuntimeError", "Azure DI error", resp.status_code, resp.text)
  ELSE IF "Operation-Location" \notin DOMAIN resp.headers
  THEN Raise("KeyError", "Operation-Location")
  ELSE IF resp.headers["Operation-Location"] = ""
  THEN Raise("RuntimeError", "Azure DI response missing Operation-Location header.")
  ELSE Ret(JStr(resp.headers["Operation-Location"]))

(* what extract_invoice does with the response of the POST *)
CheckSubmit(resp) ==
  IF resp.status_code # 202
  THEN RaiseHttp("RuntimeError", "Azure DI error", resp.status_code, resp.text)
  ELSE IF "Operation-Location" \notin DOMAIN resp.headers
  THEN Raise("KeyError", "Operation-Location")
  ELSE IF resp.headers["Operation-Location"] = ""
  THEN Raise("RuntimeError", "Azure DI response missing Operation-Location header.")
  ELSE Ret(JStr(resp.headers["Operation-Location"]))

(* requests.post returns resp after d seconds *)
PostReturn(resp, d) ==
  /\ pc = "post"
  /\ now' = now + d
  /\ response' = resp
  /\ LET c == CheckSubmit(resp) IN
     IF c.kind = "raise"
     THEN /\ Finish(c, c)
          /\ UNCHANGED <<operation_url, start_time>>
     ELSE /\ operation_url' = c.val.v
          /\ start_time' = now'
          /\ pc' = "poll"
          /\ UNCHANGED <<extract_out, outcome>>
  /\ UNCHANGED <<pdf_bytes, env, elapsed, poll_resp, raw_result, post_req, get_req,
                 nPost, nGet, nSleep, nExtract, nNormalize, allRunning,
                 norm_call, norm_result, apiVars, concVars>>

(* variant: a network failure of the POST is caught and reported as a rejection *)
PostError_AsRejected(d) ==
  /\ pc = "post"
  /\ now' = now + d
  /\ LET e == RaiseHttp("RuntimeError", "Azure DI error", 0, "") IN Finish(e, e)
  /\ UNCHANGED <<pdf_bytes, env, start_time, elapsed, response, operation_url, poll_resp,
                 raw_result, post_req, get_req, nPost, nGet, nSleep, nExtract, nNormalize,
                 allRunning, norm_call, norm_result, apiVars, concVars>>

(* requests.post raises: the network failed *)
PostError(d) ==
  /\ pc = "post"
  /\ now' = now + d
  /\ LET e == Raise("ConnectionError", "POST") IN Finish(e, e)
  /\ UNCHANGED <<pdf_bytes, env, start_time, elapsed, response, operation_url, poll_resp,
                 raw_result, post_req, get_req, nPost, nGet, nSleep, nExtract, nNormalize,
                 allRunning, norm_call, norm_result, apiVars, concVars>>

(* variant: the GET goes to the analyze URL of the submission *)
PollTop_PollsAnalyzeUrl ==
  /\ pc = "poll"
  /\ elapsed' = now - start_time
  /\ IF TimedOut(elapsed')
     THEN /\ LET e == Raise("TimeoutError", "Azure Document Intelligence timeout")
             IN Finish(e, e)
          /\ UNCHANGED <<get_req, nGet>>
     ELSE /\ get_req' = [method |-> "GET", url |-> post_req.url,
                         key |-> env.DOCINT_KEY.v, ctype |-> "", data |-> <<>>]
          /\ nGet' = nGet + 1
          /\ pc' = "get"
          /\ UNCHANGED <<extract_out, outcome>>
  /\ UNCHANGED <<pdf_bytes, env, now, start_time, response, operation_url, poll_resp,
                 raw_result, post_req, nPost, nSleep, nExtract, nNormalize, allRunning,
                 norm_call, norm_result, apiVars, concVars>>

(* the top of the poll loop: the timeout check, then the GET is issued *)
PollTop ==
  /\ pc = "poll"
  /\ elapsed' = now - start_time
  /\ IF TimedOut(elapsed')
     THEN /\ LET e == Raise("TimeoutError", "Azure Document Intelligence timeout")
             IN Finish(e, e)
          /\ UNCHANGED <<get_req, nGet>>
     ELSE /\ get_req' = [method |-> "GET", url |-> operation_url,
                         key |-> env.DOCINT_KEY.v, ctype |-> "", data |-> <<>>]
          /\ nGet' = nGet + 1
          /\ pc' = "get"
          /\ UNCHANGED <<extract_out, outcome>>
  /\ UNCHANGED <<pdf_bytes, env, now, start_time, response, operation_url, poll_resp,
                 raw_result, post_req, nPost, nSleep, nExtract, nNormalize, allRunning,
                 norm_call, norm_result, apiVars, concVars>>

(* variant: an unparseable body ends the call *)
Classify_UnparseableRaises(resp) ==
  IF ~resp.parsed THEN Raise("JSONDecodeError", "Expecting value")
  ELSE LET status == MethodGet(resp.json, "status") IN
       IF status.kind = "raise" THEN status
       ELSE IF status.val = JStr("succeeded") THEN Ret(JStr("return"))
       ELSE IF status.val = JStr("failed")
       THEN Raise("RuntimeError", "Azure DI failed to process the document.")
       ELSE Ret(JStr("sleep"))

(* variant: a status that is not a known one ends the call *)
Classify_UnknownRaises(resp) ==
  IF ~resp.parsed THEN Ret(JStr("sleep"))
  ELSE LET status == MethodGet(resp.json, "status") IN
       IF status.kind = "raise" THEN status
       ELSE IF status.val = JStr("succeeded") THEN Ret(JStr("return"))
       ELSE IF status.val = JStr("failed")
       THEN Raise("RuntimeError", "Azure DI failed to process the document.")
       ELSE IF status.val \in {JStr("running"), JStr("notStarted")} THEN Ret(JStr("sleep"))
       ELSE Raise("RuntimeError", "Unexpected status")

(* variant: the status is compared without regard to case *)
Classify_CaseInsensitive(resp) ==
  IF ~resp.parsed THEN Ret(JStr("sleep"))
  ELSE LET status == MethodGet(resp.json, "status") IN
       IF status.kind = "raise" THEN status
       ELSE IF status.val \in {JStr("succeeded"), JStr("Succeeded")} THEN Ret(JStr("return"))
       ELSE IF status.val = JStr("failed")
       THEN Raise("RuntimeError", "Azure DI failed to process the document.")
       ELSE Ret(JStr("sleep"))

(* variant: a failed status is polled again like an in-progress one *)
Classify_FailedKeepsPolling(resp) ==
  IF ~resp.parsed THEN Ret(JStr("sleep"))
  ELSE LET status == MethodGet(resp.json, "status") IN
       IF status.kind = "raise" THEN status
       ELSE IF status.val = JStr("succeeded") THEN Ret(JStr("return"))
       ELSE Ret(JStr("sleep"))

(* what extract_invoice does with a poll response: "sleep", or the call's outcome *)
Classify(resp) ==
  IF ~resp.parsed THEN Ret(JStr("sleep"))
  ELSE LET status == MethodGet(resp.json, "status") IN
       IF status.kind = "raise" THEN status
       ELSE IF status.val = JStr("succeeded") THEN Ret(JStr("return"))
       ELSE IF status.val = JStr("failed")
       THEN Raise("RuntimeError", "Azure DI failed to process the document.")
       ELSE Ret(JStr("sleep"))

(* variant: a response that arrives after the budget has run out is dropped and the
   call times out *)
GetReturn_DeadlineOnReturn(resp, d) ==
  /\ pc = "get"
  /\ now' = now + d
  /\ poll_resp' = resp
  /\ allRunning' = (allRunning /\ resp.parsed /\ resp.json = MkObj([status |-> JStr("running")]))
  /\ LET c == IF TimedOut(now' - start_time)
              THEN Raise("TimeoutError", "Azure Document Intelligence timeout")
              ELSE Classify(resp) IN
     IF c.kind = "raise"
     THEN /\ Finish(c, c)
          /\ UNCHANGED <<raw_result, nNormalize>>
     ELSE IF c.val = JStr("return")
     THEN /\ raw_result' = SuccessReturn(resp.json).val
          /\ nNormalize' = nNormalize + 1
          /\ Finish(SuccessReturn(resp.json), normalize_invoice(raw_result'))
     ELSE /\ pc' = "sleep"
          /\ UNCHANGED <<extract_out, outcome, raw_result, nNormalize>>
  /\ UNCHANGED <<pdf_bytes, env, start_time, elapsed, response, operation_url,
                 post_req, get_req, nPost, nGet, nSleep, nExtract, norm_call, norm_result, apiVars, concVars>>

(* requests.get returns resp after d seconds; on success extract_invoice returns and
   process_invoice_bytes normalizes the result *)
GetReturn(resp, d) ==
  /\ pc = "get"
  /\ now' = now + d
  /\ poll_resp' = resp
  /\ allRunning' = (allRunning /\ resp.parsed /\ resp.json = MkObj([status |-> JStr("running")]))
  /\ LET c == Classify(resp) IN
     IF c.kind = "raise"
     THEN /\ Finish(c, c)
          /\ UNCHANGED <<raw_result, nNormalize>>
     ELSE IF c.val = JStr("return")
     THEN /\ raw_result' = SuccessReturn(resp.json).val
          /\ nNormalize' = nNormalize + 1
          /\ Finish(SuccessReturn(resp.json), normalize_invoice(raw_result'))
     ELSE /\ pc' = "sleep"
          /\ UNCHANGED <<extract_out, outcome, raw_result, nNormalize>>
  /\ UNCHANGED <<pdf_bytes, env, start_time, elapsed, response, operation_url,
                 post_req, get_req, nPost, nGet, nSleep, nExtract, norm_call, norm_result, apiVars, concVars>>

(* requests.get raises: the network failed *)
GetError(d) ==
  /\ pc = "get"
  /\ now' = now + d
  /\ LET e == Raise("ConnectionError", "GET") IN Finish(e, e)
  /\ UNCHANGED <<pdf_bytes, env, start_time, elapsed, response, operation_url, poll_resp,
                 raw_result, post_req, get_req, nPost, nGet, nSleep, nExtract, nNormalize,
                 allRunning, norm_call, norm_result, apiVars, concVars>>

(* time.sleep(POLL_INTERVAL) returns, after at least POLL_INTERVAL seconds *)
Sleep(d) ==
  /\ pc = "sleep"
  /\ now' = now + POLL_INTERVAL + d
  /\ nSleep' = nSleep + 1
  /\ pc' = "poll"
  /\ UNCHANGED <<pdf_bytes, env, start_time, elapsed, response, operation_url, poll_resp,
                 extract_out, raw_result, outcome, post_req, get_req, nPost, nGet,
                 nExtract, nNormalize, allRunning, norm_call, norm_result, apiVars, concVars>>

Next ==
  \/ ProcessInvoiceBytes
  \/ \E resp \in PostResponses, d \in 0..MaxLatency : PostReturn(resp, d)
  \/ \E d \in 0..MaxLatency : PostError(d)
  \/ PollTop
  \/ \E resp \in PollResponses, d \in 0..MaxLatency : GetReturn(resp, d)
  \/ \E d \in 0..MaxLatency : GetError(d)
  \/ \E d \in 0..MaxJitter : Sleep(d)

Spec == Init /\ [][Next]_vars

(* extract_invoice called with a one-byte document, when every request is answered
   or fails and every sleep returns: no step that can be taken is put off forever *)
InitLive ==
  /\ Init
  /\ pdf_bytes \in [1..1 -> Bytes]

(* one answer of each class the poll loop tells apart: unparseable, in progress,
   succeeded, failed, and a body that is no object *)
LivePollResponses ==
  { [parsed |-> FALSE, json |-> JNull],
    [parsed |-> TRUE, json |-> MkObj([status |-> JStr("running")])],
    [parsed |-> TRUE, json |-> Succeeded(Documents(<<Document(GoodFields, JNum(1))>>))],
    [parsed |-> TRUE, json |-> MkObj([status |-> JStr("failed"),
                                      error |-> MkObj([code |-> JStr("SomeError")])])],
    [parsed |-> TRUE, json |-> JList(<<>>)] }

NextLive ==
  \/ ProcessInvoiceBytes
  \/ \E resp \in PostResponses, d \in 0..MaxLatency : PostReturn(resp, d)
  \/ \E d \in 0..MaxLatency : PostError(d)
  \/ PollTop
  \/ \E resp \in LivePollResponses, d \in 0..MaxLatency : GetReturn(resp, d)
  \/ \E d \in 0..MaxLatency : GetError(d)
  \/ \E d \in 0..MaxJitter : Sleep(d)

SpecLive == InitLive /\ [][NextLive]_vars /\ WF_vars(NextLive)

----------------------------------------------------------------------------
(* The normalizer on its own: get_value and normalize_invoice applied to inputs
   drawn from bounded sets of field shapes and raw results *)

EmptyItem == ItemObj(JDict(<<>>))

CurrencyObjects ==
  { MkObj([amount |-> JNum(123456), currencyCode |-> JStr("USD"), currencySymbol |-> JStr("$")]),
    MkObj([amount |-> JNum(5)]),
    MkObj([currencyCode |-> JStr("USD"), currencySymbol |-> JStr("$")]),
    MkObj([amount |-> JNull, currencyCode |-> JStr("USD")]),
    JDict(<<>>) }

(* what a slot of a field can hold *)
SlotContents ==
  CurrencyObjects \cup
  { JNull, JStr(""), JStr("INV"), JNum(0), JNum(5),
    JList(<<>>), JList(<<FullItem>>),
    MkObj([Description |-> MkObj([valueString |-> JStr("A")])]) }

Slots == {SlotOrder[i] : i \in 1..Len(SlotOrder)}

(* a field carrying the slots of f, and a type key when typed *)
Field(f, typed) ==
  JDict([k \in DOMAIN f \cup (IF typed THEN {"type"} ELSE {}) |->
           IF k \in DOMAIN f THEN f[k] ELSE JStr("x")])

OneSlotFields ==
  {Field([k \in {slot} |-> c], typed) : slot \in Slots, c \in SlotContents, typed \in BOOLEAN}
TwoSlotFields ==
  {Field([k \in {a, b} |-> IF k = a THEN JStr("INV") ELSE JNum(5)], FALSE) :
     a \in Slots \ {"valueCurrency"}, b \in Slots \ {"valueCurrency"}}
UnknownOnlyFields ==
  { MkObj([type |-> JStr("x")]),
    MkObj([content |-> JStr("INV"), confidence |-> JNum(1)]),
    MkObj([valueBoolean |-> JNum(1)]) }
(* fields carrying several slots, a currency slot or a null slot among them *)
MixedSlotFields ==
  { MkObj([valueCurrency |-> MkObj([amount |-> JNum(5)]), valueArray |-> JList(<<>>)]),
    MkObj([valueCurrency |-> JNull, valueArray |-> JList(<<>>)]),
    MkObj([valueCurrency |-> JNum(5), valueObject |-> JDict(<<>>)]),
    MkObj([valueString |-> JStr("INV"), valueCurrency |-> JNull]),
    MkObj([valueDate |-> JStr("INV"), valueCurrency |-> MkObj([amount |-> JNum(5)])]),
    MkObj([valueString |-> JNull, valueNumber |-> JNum(5)]),
    MkObj([valueObject |-> JDict(<<>>), valueArray |-> JList(<<FullItem>>),
           valueDate |-> JStr("INV")]),
    MkObj([valueObject |-> JDict(<<>>), valueArray |-> JList(<<FullItem>>),
           valueCurrency |-> MkObj([currencyCode |-> JStr("USD")]),
           valueDate |-> JStr(""), valueNumber |-> JNum(0), valueString |-> JStr("INV")]) }
FieldShapes ==
  {JNull, JDict(<<>>)} \cup OneSlotFields \cup TwoSlotFields \cup MixedSlotFields
  \cup UnknownOnlyFields

(* shapes of the InvoiceTotal and TotalTax fields of a raw result *)
TotalShapes ==
  {Absent} \cup
  {CurrencyField(c) : c \in CurrencyObjects} \cup
  { MkObj([valueCurrency |-> JNull]),
    MkObj([valueNumber |-> JNum(7)]),
    MkObj([valueString |-> JStr("INV"),
           valueCurrency |-> MkObj([amount |-> JNum(5)])]) }
TaxShapes ==
  { Absent,
    CurrencyField(MkObj([amount |-> JNum(9), currencyCode |-> JStr("USD")])),
    CurrencyField(MkObj([currencySymbol |-> JStr("$")])) }

(* shapes of the Items field of a raw result *)
ItemsShapes ==
  {Absent} \cup
  {MkObj([type |-> JStr("array"), valueArray |-> JList(q)]) :
     q \in { <<>>, <<FullItem>>, <<FullItem, EmptyItem>>, <<EmptyItem, FullItem>>,
             <<FullItem, JDict(<<>>)>>, <<FullItem, JNull>>,
             <<FullItem, MkObj([type |-> JStr("object")])>>,
             <<MkObj([valueString |-> JStr("A")])>> }} \cup
  { MkObj([valueArray |-> JNull]),
    MkObj([valueObject |-> MkObj([Description |-> MkObj([valueString |-> JStr("A")])])]),
    MkObj([valueNumber |-> JNum(5)]) }

RawOf(total, tax, items, conf) ==
  MkObj([status |-> JStr("succeeded"),
         analyzeResult |->
           Documents(<<Document(MkObj([InvoiceId |-> MkObj([valueString |-> JStr("INV")]),
                                       InvoiceTotal |-> total,
                                       TotalTax |-> tax,
                                       Items |-> items]),
                                conf)>>)])

MalformedResults ==
  { JDict(<<>>),
    MkObj([status |-> JStr("succeeded")]),
    Succeeded(JDict(<<>>)),
    Succeeded(JNull),
    Succeeded(Documents(<<>>)),
    Succeeded(MkObj([documents |-> JNull])),
    Succeeded(Documents(<<JDict(<<>>)>>)),
    Succeeded(Documents(<<MkObj([confidence |-> JNum(1)])>>)),
    Succeeded(Documents(<<JNull>>)),
    Succeeded(Documents(<<Document(JNull, JNum(1))>>)) }

RawResults ==
  {RawOf(total, tax, items, conf) :
     total \in TotalShapes, tax \in TaxShapes, items \in ItemsShapes, conf \in {Absent, JNum(1)}}
  \cup MalformedResults \cup PipelineResults

InitNorm ==
  /\ norm_call \in [fn : {"get_value"}, arg : FieldShapes] \cup
                   [fn : {"normalize_invoice"}, arg : RawResults]
  /\ norm_result = NoOutcome
  /\ pdf_bytes = <<>>
  /\ env = [DOCINT_ENDPOINT |-> JNull, DOCINT_KEY |-> JNull]
  /\ pc = "idle"
  /\ now = 0
  /\ start_time = 0
  /\ elapsed = 0
  /\ response = NoResponse
  /\ operation_url = ""
  /\ poll_resp = NoPoll
  /\ extract_out = NoOutcome
  /\ raw_result = JNull
  /\ outcome = NoOutcome
  /\ post_req = NoRequest
  /\ get_req = NoRequest
  /\ nPost = 0 /\ nGet = 0 /\ nSleep = 0 /\ nExtract = 0 /\ nNormalize = 0
  /\ allRunning = TRUE
  /\ request = NoUpload
  /\ http_resp = NoHttp
  /\ nProcess = 0
  /\ inv = NoCalls
  /\ net = NoNet

CallGetValue ==
  /\ norm_call.fn = "get_value"
  /\ norm_result = NoOutcome
  /\ norm_result' = get_value(norm_call.arg)
  /\ UNCHANGED <<pdf_bytes, env, pc, now, start_time, elapsed, response, operation_url,
                 poll_resp, extract_out, raw_result, outcome, post_req, get_req, nPost,
                 nGet, nSleep, nExtract, nNormalize, allRunning, norm_call, apiVars, concVars>>

CallNormalizeInvoice ==
  /\ norm_call.fn = "normalize_invoice"
  /\ norm_result = NoOutcome
  /\ norm_result' = normalize_invoice(norm_call.arg)
  /\ UNCHANGED <<pdf_bytes, env, pc, now, start_time, elapsed, response, operation_url,
                 poll_resp, extract_out, raw_result, outcome, post_req, get_req, nPost,
                 nGet, nSleep, nExtract, nNormalize, allRunning, norm_call, apiVars, concVars>>

NextNorm ==
  \/ CallGetValue
  \/ CallNormalizeInvoice

SpecNorm == InitNorm /\ [][NextNorm]_vars

----------------------------------------------------------------------------
(* fastapi_app/main.py: the POST /extract endpoint around process_invoice_bytes *)

ContentTypes == {"application/pdf", "application/octet-stream", "text/plain"}

(* uploads a client can send: a content type, and a body that can be read or not *)
Uploads ==
  [content_type : ContentTypes, readable : {TRUE}, data : ByteStrings] \cup
  [content_type : ContentTypes, readable : {FALSE}, data : {<<>>}]

(* variant: only application/pdf is accepted *)
AcceptedType_PdfOnly(ct) == ct = "application/pdf"

(* `file.content_type not in (...)`, negated *)
AcceptedType(ct) == ct \in {"application/pdf", "application/octet-stream"}

(* raise HTTPException(status_code, detail) *)
HttpError(status, detail, arg) ==
  [status |-> status, detail |-> detail, arg |-> arg, content |-> JNull]

(* str(e) of an exception: its message with the values formatted into it *)
ErrorText(o) == <<o.msg, o.status, o.body>>

(* the response for an outcome of process_invoice_bytes *)
ServiceResponse(o) ==
  IF o.kind = "raise"
  THEN HttpError(502, "Error processing invoice", ErrorText(o))
  ELSE [status |-> 200, detail |-> "", arg |-> <<"", 0, "">>, content |-> o.val]

(* the endpoint up to the call of process_invoice_bytes: the content type check,
   the read of the upload and the emptiness check *)
ExtractInvoiceEndpoint ==
  /\ pc = "request"
  /\ IF ~AcceptedType(request.content_type)
     THEN /\ http_resp' = HttpError(400, "Unsupported content type",
                                    <<request.content_type, 0, "">>)
          /\ pc' = "responded"
          /\ UNCHANGED <<pdf_bytes, request, nProcess>>
     ELSE IF ~request.readable
     THEN /\ http_resp' = HttpError(400, "Failed to read file", <<"", 0, "">>)
          /\ pc' = "responded"
          /\ UNCHANGED <<pdf_bytes, request, nProcess>>
     ELSE IF request.data = <<>>
     THEN /\ http_resp' = HttpError(400, "Uploaded file is empty.", <<"", 0, "">>)
          /\ pc' = "responded"
          /\ UNCHANGED <<pdf_bytes, request, nProcess>>
     ELSE /\ pdf_bytes' = request.data
          /\ request' = NoUpload
          /\ nProcess' = nProcess + 1
          /\ pc' = "start"
          /\ UNCHANGED http_resp
  /\ UNCHANGED <<env, now, start_time, elapsed, response, operation_url, poll_resp,
                 extract_out, raw_result, outcome, post_req, get_req, nPost, nGet, nSleep,
                 nExtract, nNormalize, allRunning, norm_call, norm_result, concVars>>

(* process_invoice_bytes is over: the endpoint answers *)
EndpointRespond ==
  /\ pc = "done"
  /\ http_resp' = ServiceResponse(outcome)
  /\ pc' = "responded"
  /\ UNCHANGED <<pdf_bytes, env, now, start_time, elapsed, response, operation_url,
                 poll_resp, extract_out, raw_result, outcome, post_req, get_req, nPost,
                 nGet, nSleep, nExtract, nNormalize, allRunning, norm_call, norm_result,
                 request, nProcess, concVars>>

(* invoice_extractor/__init__.py, main: the status the Azure Function answers with
   for a non-empty PDF request, e the outcome of its call of extract_invoice and o
   that of normalize_invoice (o is e when normalize_invoice was not called) *)
FunctionMainStatus(e, o) ==
  IF e.kind = "raise" THEN 502
  ELSE IF o.kind = "raise" THEN 500
  ELSE 200

InitApi ==
  /\ request \in Uploads
  /\ http_resp = NoHttp
  /\ nProcess = 0
  /\ inv = NoCalls
  /\ net = NoNet
  /\ pdf_bytes = <<>>
  /\ env \in [DOCINT_ENDPOINT : EnvValues, DOCINT_KEY : KeyValues]
  /\ pc = "request"
  /\ now = 0
  /\ start_time = 0
  /\ elapsed = 0
  /\ response = NoResponse
  /\ operation_url = ""
  /\ poll_resp = NoPoll
  /\ extract_out = NoOutcome
  /\ raw_result = JNull
  /\ outcome = NoOutcome
  /\ post_req = NoRequest
  /\ get_req = NoRequest
  /\ nPost = 0 /\ nGet = 0 /\ nSleep = 0 /\ nExtract = 0 /\ nNormalize = 0
  /\ allRunning = TRUE
  /\ norm_call = [fn |-> "none", arg |-> JNull]
  /\ norm_result = NoOutcome

NextApi ==
  \/ ExtractInvoiceEndpoint
  \/ EndpointRespond
  \/ Next

SpecApi == InitApi /\ [][NextApi]_vars

----------------------------------------------------------------------------
(* Two invocations of process_invoice_bytes running concurrently.  Each has its own
   copy of the local variables of process_invoice_bytes and extract_invoice; the
   clock, the environment and the backend are common to both. *)

Calls == {1, 2}
MaxClock == 93
TickSteps == {30, 31}
PairUrls == {"https://op1", "https://op2"}

(* every variable of the single call but the clock *)
seqVars ==
  <<pdf_bytes, env, pc, start_time, elapsed, response, operation_url, poll_resp,
    extract_out, raw_result, outcome, post_req, get_req, nPost, nGet, nSleep, nExtract,
    nNormalize, allRunning, norm_call, norm_result, apiVars>>

(* the analysis result of the operation at url u *)
ResultOf(u) ==
  Succeeded(Documents(<<Document(MkObj([InvoiceId |-> MkObj([valueString |-> JStr(u)])]),
                                 JNum(1))>>))

(* answers of the backend to a submission, u the location of the new operation *)
PairPostResponses(u) ==
  { [status_code |-> 202, headers |-> [h \in {"Operation-Location"} |-> u], text |-> ""],
    [status_code |-> 400, headers |-> <<>>, text |-> "Bad request"] }

(* answers of the backend to a GET of the operation at url u *)
PairPollResponses(u) ==
  [parsed : {TRUE},
   json : { MkObj([status |-> JStr("running")]),
            ResultOf(u),
            MkObj([status |-> JStr("failed")]) }]

InitPair ==
  /\ inv = [p \in Calls |->
              [pc |-> "start", pdf_bytes |-> [i \in 1..p |-> 37], operation_url |-> "",
               start_time |-> 0, elapsed |-> 0, target |-> "", wake |-> 0,
               out |-> NoOutcome]]
  /\ net = [data |-> [p \in Calls |-> <<>>], issued |-> [p \in Calls |-> ""],
            accepted |-> [p \in Calls |-> 0], polled |-> [p \in Calls |-> {}],
            last_url |-> ""]
  /\ env = [DOCINT_ENDPOINT |-> JStr("https://ep"), DOCINT_KEY |-> JStr("key")]
  /\ pdf_bytes = <<>>
  /\ pc = "pair"
  /\ now = 0
  /\ start_time = 0
  /\ elapsed = 0
  /\ response = NoResponse
  /\ operation_url = ""
  /\ poll_resp = NoPoll
  /\ extract_out = NoOutcome
  /\ raw_result = JNull
  /\ outcome = NoOutcome
  /\ post_req = NoRequest
  /\ get_req = NoRequest
  /\ nPost = 0 /\ nGet = 0 /\ nSleep = 0 /\ nExtract = 0 /\ nNormalize = 0
  /\ allRunning = TRUE
  /\ norm_call = [fn |-> "none", arg |-> JNull]
  /\ norm_result = NoOutcome
  /\ request = NoUpload
  /\ http_resp = NoHttp
  /\ nProcess = 0

(* invocation p ends with outcome o *)
CallFinish(p, o) ==
  inv' = [inv EXCEPT ![p].pc = "done", ![p].out = o]

(* invocation p up to its POST *)
CallStart(p) ==
  /\ pc = "pair" /\ inv[p].pc = "start"
  /\ IF IsEmptyBytes(inv[p].pdf_bytes)
     THEN CallFinish(p, Raise("ValueError", "PDF bytes are empty.")) /\ UNCHANGED net
     ELSE IF ConfigMissing(env)
     THEN /\ CallFinish(p, Raise("ValueError",
                         "Missing DOCINT_ENDPOINT or DOCINT_KEY environment variables."))
          /\ UNCHANGED net
     ELSE /\ inv' = [inv EXCEPT ![p].pc = "post"]
          /\ net' = [net EXCEPT !.data[p] = inv[p].pdf_bytes]
  /\ UNCHANGED <<now, seqVars>>

(* the POST of invocation p is answered; the backend names a new operation *)
CallPostReturn(p, resp) ==
  /\ pc = "pair" /\ inv[p].pc = "post"
  /\ \E u \in PairUrls \ {net.issued[q] : q \in Calls} : resp \in PairPostResponses(u)
  /\ LET c == CheckSubmit(resp) IN
     IF c.kind = "raise"
     THEN CallFinish(p, c) /\ UNCHANGED net
     ELSE /\ inv' = [inv EXCEPT ![p].pc = "poll", ![p].operation_url = c.val.v,
                                ![p].start_time = now]
          /\ net' = [net EXCEPT !.issued[p] = c.val.v, !.accepted[p] = now,
                                !.last_url = c.val.v]
  /\ UNCHANGED <<now, seqVars>>

(* variant: the operation location is kept in a variable of the module, which the
   latest submission overwrites *)
PollUrl_LastSubmitted(p) == net.last_url

(* the url invocation p polls: its local operation_url *)
PollUrl(p) == inv[p].operation_url

(* the top of the poll loop of invocation p *)
CallPollTop(p) ==
  /\ pc = "pair" /\ inv[p].pc = "poll"
  /\ LET el == now - inv[p].start_time IN
     IF TimedOut(el)
     THEN /\ inv' = [inv EXCEPT ![p].pc = "done", ![p].elapsed = el,
                                ![p].out = Raise("TimeoutError",
                                                 "Azure Document Intelligence timeout")]
          /\ UNCHANGED net
     ELSE /\ inv' = [inv EXCEPT ![p].pc = "get", ![p].elapsed = el,
                                ![p].target = PollUrl(p)]
          /\ net' = [net EXCEPT !.polled[p] = @ \cup {PollUrl(p)}]
  /\ UNCHANGED <<now, seqVars>>

(* the GET of invocation p is answered, for the operation it asked about *)
CallGetReturn(p, resp) ==
  /\ pc = "pair" /\ inv[p].pc = "get"
  /\ resp \in PairPollResponses(inv[p].target)
  /\ LET c == Classify(resp) IN
     IF c.kind = "raise" THEN CallFinish(p, c)
     ELSE IF c.val = JStr("return")
     THEN CallFinish(p, normalize_invoice(SuccessReturn(resp.json).val))
     ELSE inv' = [inv EXCEPT ![p].pc = "sleep", ![p].wake = now + POLL_INTERVAL]
  /\ UNCHANGED <<now, net, seqVars>>

(* the sleep of invocation p is over *)
CallSleep(p) ==
  /\ pc = "pair" /\ inv[p].pc = "sleep"
  /\ now >= inv[p].wake
  /\ inv' = [inv EXCEPT ![p].pc = "poll"]
  /\ UNCHANGED <<now, net, seqVars>>

(* time passes *)
Tick(d) ==
  /\ pc = "pair"
  /\ now + d <= MaxClock
  /\ now' = now + d
  /\ UNCHANGED <<inv, net, seqVars>>

NextPair ==
  \/ \E p \in Calls : CallStart(p)
  \/ \E p \in Calls, resp \in UNION {PairPostResponses(u) : u \in PairUrls} :
       CallPostReturn(p, resp)
  \/ \E p \in Calls : CallPollTop(p)
  \/ \E p \in Calls, resp \in UNION {PairPollResponses(u) : u \in PairUrls} :
       CallGetReturn(p, resp)
  \/ \E p \in Calls : CallSleep(p)
  \/ \E d \in TickSteps : Tick(d)

SpecPair == InitPair /\ [][NextPair]_vars

----------------------------------------------------------------------------
(* The error kinds of the specification, as the exceptions the code raises *)

IsEmptyInput(o) ==
  o.kind = "raise" /\ o.exc = "ValueError" /\ o.msg = "PDF bytes are empty."
IsConfigError(o) ==
  /\ o.kind = "raise" /\ o.exc = "ValueError"
  /\ o.msg = "Missing DOCINT_ENDPOINT or DOCINT_KEY environment variables."
IsBackendRejected(o) ==
  /\ o.kind = "raise" /\ o.exc = "RuntimeError"
  /\ o.msg \in {"Azure DI error", "Azure DI response missing Operation-Location header."}
IsBackendFailed(o) ==
  /\ o.kind = "raise" /\ o.exc = "RuntimeError"
  /\ o.msg = "Azure DI failed to process the document."
IsPollTimeout(o) ==
  o.kind = "raise" /\ o.exc = "TimeoutError"

(* the status of the last poll response, Absent when it has none *)
PollStatus ==
  IF poll_resp.parsed /\ poll_resp.json.t = "dict" /\ "status" \in DOMAIN poll_resp.json.v
  THEN poll_resp.json.v["status"]
  ELSE Absent

----------------------------------------------------------------------------
(* Properties *)

(* C1: for empty bytes process_invoice_bytes fails with EmptyInput and does no
   network I/O: extract_invoice is not invoked, no POST and no GET is issued, and
   normalize_invoice is not invoked. *)
C1_EmptyInputNoIO ==
  pdf_bytes = <<>> /\ pc # "idle" =>
    /\ pc \in {"start", "done"}
    /\ nExtract = 0 /\ nPost = 0 /\ nGet = 0 /\ nNormalize = 0
    /\ post_req = NoRequest /\ get_req = NoRequest
    /\ pc = "done" => IsEmptyInput(outcome)

C1_Witness ==
  pdf_bytes = <<>> /\ pc = "done" /\ IsEmptyInput(outcome)

(* C2: when the endpoint or the key is missing or empty, extract_invoice fails
   with ConfigError and no POST and no GET is ever issued. *)
C2_ConfigErrorBeforeRequest ==
  /\ pdf_bytes # <<>>
  /\ \/ env.DOCINT_ENDPOINT \in {JNull, JStr("")}
     \/ env.DOCINT_KEY \in {JNull, JStr("")}
  => /\ pc \in {"start", "done"}
     /\ nPost = 0 /\ nGet = 0
     /\ post_req = NoRequest /\ get_req = NoRequest
     /\ pc = "done" => nExtract = 1 /\ IsConfigError(extract_out) /\ outcome = extract_out

C2_Witness ==
  /\ pc = "done" /\ nExtract = 1
  /\ env.DOCINT_ENDPOINT = JStr("https://ep") /\ env.DOCINT_KEY = JNull
  /\ IsConfigError(extract_out)

(* C3: a submit response whose status code is not 202 makes extract_invoice fail
   with BackendRejected carrying that status code and the response body, and no
   GET is issued. *)
C3_Non202Rejected ==
  response # NoResponse /\ response.status_code # 202 =>
    /\ pc = "done"
    /\ IsBackendRejected(extract_out)
    /\ extract_out.status = response.status_code
    /\ extract_out.body = response.text
    /\ nGet = 0 /\ get_req = NoRequest

C3_Witness ==
  /\ response.status_code = 400 /\ response.text = "Bad request"
  /\ pc = "done" /\ IsBackendRejected(extract_out)

(* C4: a 202 submit response without an Operation-Location header (absent, or
   present but empty) makes extract_invoice fail with BackendRejected, the error
   kind of a non-202 status, and no GET is issued. *)
C4_MissingLocationRejected ==
  /\ response.status_code = 202
  /\ \/ "Operation-Location" \notin DOMAIN response.headers
     \/ response.headers["Operation-Location"] = ""
  => /\ pc = "done"
     /\ IsBackendRejected(extract_out)
     /\ nGet = 0 /\ get_req = NoRequest

(* C5: a poll response with status succeeded makes extract_invoice return exactly
   that parsed response, with no request or sleep after it, whatever the number
   of in-progress or unparseable responses before it. *)
C5_SucceededReturnsResponse ==
  PollStatus = JStr("succeeded") =>
    /\ pc = "done"
    /\ extract_out = Ret(poll_resp.json)
    /\ raw_result = poll_resp.json
    /\ nSleep = nGet - 1
    /\ nPost = 1

C5_Witness ==
  /\ PollStatus = JStr("succeeded") /\ pc = "done"
  /\ nGet >= 3
  /\ extract_out.kind = "return"

(* C6: a poll response with status failed makes extract_invoice fail with
   BackendFailed in that iteration: no sleep and no GET follows it. *)
C6_FailedIsImmediate ==
  PollStatus = JStr("failed") =>
    /\ pc = "done"
    /\ IsBackendFailed(extract_out)
    /\ outcome = extract_out
    /\ nSleep = nGet - 1
    /\ nNormalize = 0

C6_Witness ==
  /\ PollStatus = JStr("failed") /\ pc = "done"
  /\ nGet >= 2
  /\ IsBackendFailed(extract_out)

(* C7: when every poll was answered running, the first loop iteration whose
   elapsed time exceeds MAX_WAIT_SECONDS fails with PollTimeout without issuing
   a GET, and no GET follows it: PollTimeout is raised only by an iteration with
   elapsed time over the budget, after which the call is over and every GET has
   been followed by its sleep. *)
C7_RunningThenTimeout ==
  /\ [][ pc = "poll" /\ allRunning /\ now - start_time > MAX_WAIT_SECONDS =>
           pc' = "done" /\ IsPollTimeout(extract_out') /\ outcome' = extract_out'
           /\ nGet' = nGet /\ get_req' = get_req ]_vars
  /\ [](IsPollTimeout(extract_out) =>
           pc = "done" /\ elapsed > MAX_WAIT_SECONDS /\ nSleep = nGet)
  /\ [][ pc = "done" => UNCHANGED vars ]_vars

C7_Witness ==
  /\ pc = "done" /\ IsPollTimeout(extract_out)
  /\ allRunning /\ nGet > 1

(* the raw result has the envelope normalize_invoice reads: a first document
   with a fields container *)
WellFormed(raw) ==
  /\ raw.t = "dict" /\ "analyzeResult" \in DOMAIN raw.v
  /\ raw.v["analyzeResult"].t = "dict"
  /\ "documents" \in DOMAIN raw.v["analyzeResult"].v
  /\ raw.v["analyzeResult"].v["documents"].t = "list"
  /\ Len(raw.v["analyzeResult"].v["documents"].v) > 0
  /\ raw.v["analyzeResult"].v["documents"].v[1].t = "dict"
  /\ "fields" \in DOMAIN raw.v["analyzeResult"].v["documents"].v[1].v
  /\ raw.v["analyzeResult"].v["documents"].v[1].v["fields"].t = "dict"

FieldsOf(raw) == raw.v["analyzeResult"].v["documents"].v[1].v["fields"].v

(* an array entry that is an object value, and the object it carries *)
IsObjectEntry(e) ==
  /\ e.t = "dict" /\ "valueObject" \in DOMAIN e.v
  /\ DOMAIN e.v \cap Slots = {"valueObject"}
  /\ e.v["valueObject"].t = "dict"

(* the raw result of the scenario: Items is an array of two object entries, the
   first with all four sub-fields, the second with none *)
TwoItemScenario(raw) ==
  /\ WellFormed(raw)
  /\ "Items" \in DOMAIN FieldsOf(raw)
  /\ LET f == FieldsOf(raw)["Items"] IN
     /\ f.t = "dict" /\ DOMAIN f.v \cap Slots = {"valueArray"}
     /\ f.v["valueArray"].t = "list" /\ Len(f.v["valueArray"].v) = 2
     /\ LET q == f.v["valueArray"].v IN
        /\ IsObjectEntry(q[1]) /\ IsObjectEntry(q[2])
        /\ {ItemAttrs[i] : i \in 1..4} \subseteq DOMAIN q[1].v["valueObject"].v
        /\ q[2].v["valueObject"] = JDict(<<>>)

NullItem == JDict([k \in {ItemKeys[i] : i \in 1..4} |-> JNull])

(* C8: for a raw result whose Items array has two object entries, one fully
   populated and one empty object, normalize_invoice returns two items, the
   second with description, quantity, unit_price and amount all null. *)
C8_EmptyObjectItemIncluded ==
  /\ norm_call.fn = "normalize_invoice" /\ norm_result # NoOutcome
  /\ TwoItemScenario(norm_call.arg)
  => /\ norm_result.kind = "return"
     /\ Len(norm_result.val.v["items"].v) = 2
     /\ norm_result.val.v["items"].v[2] = NullItem

(* the fields the totality claim covers: absent, empty, one known slot with any
   content, or unknown keys only *)
TypedShape(field) ==
  \/ field.t = "null"
  \/ field.t = "dict" /\ Cardinality(DOMAIN field.v \cap Slots) <= 1

(* C9: get_value is total over the typed-value shapes: it returns without
   raising; a string, number or date slot returns its content unchanged; an
   absent field, an empty field and a field with unknown keys only return
   null. *)
C9_GetValueTotal ==
  /\ norm_call.fn = "get_value" /\ norm_result # NoOutcome
  /\ TypedShape(norm_call.arg)
  => /\ norm_result.kind = "return"
     /\ \A slot \in {"valueString", "valueNumber", "valueDate"} :
          norm_call.arg.t = "dict" /\ slot \in DOMAIN norm_call.arg.v =>
            norm_result.val = norm_call.arg.v[slot]
     /\ (norm_call.arg.t = "null" \/ DOMAIN norm_call.arg.v \cap Slots = {}) =>
          norm_result.val = JNull

(* a field whose populated slot is a currency object, and that object's amount *)
IsCurrencyValue(f) ==
  /\ f.t = "dict" /\ "valueCurrency" \in DOMAIN f.v
  /\ DOMAIN f.v \cap {"valueString", "valueNumber", "valueDate"} = {}
  /\ f.v["valueCurrency"].t = "dict"
AmountOf(f) ==
  IF "amount" \in DOMAIN f.v["valueCurrency"].v
  THEN f.v["valueCurrency"].v["amount"]
  ELSE JNull

(* the normalized attribute key is the amount of the currency field name *)
TotalIsAmount(raw, rec, name, key) ==
  name \in DOMAIN FieldsOf(raw) /\ IsCurrencyValue(FieldsOf(raw)[name]) =>
    /\ rec[key] = AmountOf(FieldsOf(raw)[name])
    /\ rec[key].t \in {"num", "null"}

(* C10: when InvoiceTotal (or TotalTax) is a currency value, total_amount (or
   total_tax) is its amount sub-field alone, null when there is no amount; the
   currency code and symbol appear nowhere in the record. *)
C10_CurrencyReducesToAmount ==
  /\ norm_call.fn = "get_value" /\ norm_result # NoOutcome
     /\ IsCurrencyValue(norm_call.arg)
     => norm_result = Ret(AmountOf(norm_call.arg))
  /\ norm_call.fn = "normalize_invoice" /\ norm_result.kind = "return"
     /\ WellFormed(norm_call.arg)
     => /\ TotalIsAmount(norm_call.arg, norm_result.val.v, "InvoiceTotal", "total_amount")
        /\ TotalIsAmount(norm_call.arg, norm_result.val.v, "TotalTax", "total_tax")
        /\ \A k \in DOMAIN norm_result.val.v :
             norm_result.val.v[k] \notin {JStr("USD"), JStr("$")}

C10_Witness ==
  /\ norm_call.fn = "normalize_invoice" /\ norm_result.kind = "return"
  /\ WellFormed(norm_call.arg)
  /\ "InvoiceTotal" \in DOMAIN FieldsOf(norm_call.arg)
  /\ FieldsOf(norm_call.arg)["InvoiceTotal"] =
       CurrencyField(MkObj([amount |-> JNum(123456), currencyCode |-> JStr("USD"),
                            currencySymbol |-> JStr("$")]))
  /\ "TotalTax" \in DOMAIN FieldsOf(norm_call.arg)
  /\ FieldsOf(norm_call.arg)["TotalTax"] = CurrencyField(MkObj([currencySymbol |-> JStr("$")]))
  /\ norm_result.val.v["total_amount"] = JNum(123456)
  /\ norm_result.val.v["total_tax"] = JNull

(* the four malformed cases: the raw result lacks analyzeResult, lacks documents,
   has an empty documents array, or its first document lacks fields *)
MalformedCase(raw) ==
  /\ raw.t = "dict"
  /\ \/ "analyzeResult" \notin DOMAIN raw.v
     \/ /\ raw.v["analyzeResult"].t = "dict"
        /\ \/ "documents" \notin DOMAIN raw.v["analyzeResult"].v
           \/ /\ raw.v["analyzeResult"].v["documents"].t = "list"
              /\ \/ Len(raw.v["analyzeResult"].v["documents"].v) = 0
                 \/ /\ raw.v["analyzeResult"].v["documents"].v[1].t = "dict"
                    /\ "fields" \notin DOMAIN raw.v["analyzeResult"].v["documents"].v[1].v

(* C11: in each of the four malformed cases normalize_invoice fails and returns
   no record, and the error is of one single kind: the kind raised for a raw
   result without the analyzeResult envelope. *)
C11_MalformedSingleKind ==
  /\ norm_call.fn = "normalize_invoice" /\ norm_result # NoOutcome
  /\ MalformedCase(norm_call.arg)
  => /\ norm_result.kind = "raise"
     /\ norm_result.exc = normalize_invoice(JDict(<<>>)).exc

(* C13: for non-empty bytes process_invoice_bytes calls extract_invoice exactly
   once with those bytes, then normalize_invoice exactly once on its result, and
   returns that record; when extract_invoice fails normalize_invoice is not
   called; an error of either step reaches the caller as it was raised. *)
C13_ServiceComposition ==
  pdf_bytes # <<>> /\ pc \notin {"start", "idle"} =>
    /\ nExtract = 1
    /\ nPost = 1 => post_req.data = pdf_bytes
    /\ pc # "done" => nNormalize = 0 /\ outcome = NoOutcome
    /\ pc = "done" /\ extract_out.kind = "raise" =>
         nNormalize = 0 /\ outcome = extract_out
    /\ pc = "done" /\ extract_out.kind = "return" =>
         /\ nNormalize = 1
         /\ raw_result = extract_out.val
         /\ outcome = normalize_invoice(extract_out.val)
    /\ pc = "done" => extract_out.kind \in {"raise", "return"}

C13_Witness ==
  /\ pdf_bytes # <<>> /\ pc = "done"
  /\ nExtract = 1 /\ nNormalize = 1
  /\ extract_out.kind = "return"
  /\ outcome.kind = "return"
  /\ outcome.val.v["invoice_id"] = JStr("INV")

(* C14: POST /extract answers 400 to a content type other than application/pdf
   and application/octet-stream; otherwise 400 with detail 'Uploaded file is
   empty.' to an upload read as zero bytes; otherwise 502 when
   process_invoice_bytes raises, whatever the exception; otherwise 200 with the
   record process_invoice_bytes returned, unchanged.  process_invoice_bytes is
   called at most once per request, with the uploaded bytes, and never for a
   request answered 400. *)
C14_EndpointResponses ==
  [][ /\ pc = "request" =>
           IF request.content_type \notin {"application/pdf", "application/octet-stream"}
           THEN http_resp'.status = 400 /\ nProcess' = 0 /\ pc' = "responded"
           ELSE IF request.readable /\ request.data = <<>>
           THEN /\ http_resp'.status = 400
                /\ http_resp'.detail = "Uploaded file is empty."
                /\ nProcess' = 0 /\ pc' = "responded"
           ELSE request.readable =>
                  /\ http_resp' = NoHttp
                  /\ nProcess' = 1 /\ pdf_bytes' = request.data /\ pc' = "start"
      /\ pc = "done" =>
           /\ pc' = "responded"
           /\ outcome.kind \in {"raise", "return"}
           /\ outcome.kind = "raise" => http_resp'.status = 502
           /\ outcome.kind = "return" =>
                http_resp'.status = 200 /\ http_resp'.content = outcome.val
      /\ pc \notin {"request", "done"} => http_resp' = http_resp
      /\ nProcess' <= 1
      /\ nProcess' = nProcess \/ pc = "request"
      /\ http_resp'.status = 400 => nProcess' = 0 /\ nExtract' = 0
      /\ http_resp'.status \in {200, 502} => nProcess' = 1
      /\ http_resp'.status \in {0, 200, 400, 502}
    ]_vars

C14_Witness ==
  /\ pc = "responded" /\ nProcess = 1
  /\ http_resp.status = 200
  /\ http_resp.content = outcome.val
  /\ http_resp.content.v["invoice_id"] = JStr("INV")

(* a GET was answered in this step (it did not fail in the network) *)
GetAnswered == pc = "get" /\ extract_out'.exc # "ConnectionError"

(* C15: a poll response whose body cannot be parsed never fails the call by
   itself: extract_invoice sleeps one interval and is back at the top of the
   loop, where the timeout check applies; a call whose last response was
   unparseable, and so every call that gets unparseable bodies forever, ends in
   PollTimeout and in no other error. *)
C15_UnparseableIsTransient ==
  [][ /\ GetAnswered /\ ~poll_resp'.parsed =>
           /\ pc' = "sleep"
           /\ extract_out' = NoOutcome /\ outcome' = NoOutcome
      /\ pc = "sleep" /\ ~poll_resp.parsed =>
           /\ pc' = "poll" /\ nSleep' = nSleep + 1 /\ nGet' = nGet
           /\ now' >= now + POLL_INTERVAL
           /\ extract_out' = NoOutcome
      /\ pc = "poll" /\ ~poll_resp.parsed /\ nGet >= 1 =>
           \/ pc' = "get" /\ now - start_time <= MAX_WAIT_SECONDS
           \/ pc' = "done" /\ IsPollTimeout(extract_out') /\ now - start_time > MAX_WAIT_SECONDS
      /\ pc' = "done" /\ nGet' >= 1 /\ ~poll_resp'.parsed
           /\ extract_out'.exc # "ConnectionError" =>
           IsPollTimeout(extract_out') /\ outcome' = extract_out'
    ]_vars

C15_Witness ==
  /\ pc = "done" /\ nGet >= 1 /\ nSleep = nGet
  /\ ~poll_resp.parsed
  /\ IsPollTimeout(extract_out)

(* C16: a parsed poll response (a JSON object) whose status is anything but
   exactly "succeeded" or "failed" (running, notStarted, an unrecognised or
   differently-cased value, null, no status at all) neither returns nor fails
   in that iteration: extract_invoice sleeps exactly one interval, and the
   elapsed time is checked again before any further GET. *)
C16_OtherStatusKeepsPolling ==
  [][ /\ GetAnswered /\ poll_resp'.parsed /\ poll_resp'.json.t = "dict"
           /\ PollStatus' \notin {JStr("succeeded"), JStr("failed")} =>
           /\ pc' = "sleep"
           /\ extract_out' = NoOutcome /\ outcome' = NoOutcome
           /\ nGet' = nGet /\ nSleep' = nSleep
      /\ pc = "sleep" =>
           /\ pc' = "poll" /\ nSleep' = nSleep + 1 /\ nGet' = nGet
           /\ now' >= now + POLL_INTERVAL
           /\ extract_out' = NoOutcome /\ outcome' = NoOutcome
      /\ nGet' # nGet =>
           /\ pc = "poll" /\ nGet' = nGet + 1
           /\ elapsed' = now - start_time
           /\ elapsed' <= MAX_WAIT_SECONDS
           /\ nSleep = nGet
    ]_vars

C16_Witness ==
  /\ pc = "get" /\ nGet = 2 /\ nSleep = 1
  /\ PollStatus = JStr("Succeeded")
  /\ extract_out = NoOutcome

(* C17: the poll phase ends in at most one of Succeeded, Failed and TimedOut
   and nothing follows the end (no request, no sleep, no second outcome);
   Succeeded comes only from a "succeeded" response, Failed only from a
   "failed" response, TimedOut only from the check at the top of an iteration
   with the elapsed time over the budget. *)
C17_PollStateMachine ==
  [][ /\ pc # "done"
      /\ extract_out # NoOutcome => pc' = "done" /\ extract_out = NoOutcome
      /\ extract_out'.kind = "return" =>
           /\ pc = "get" /\ PollStatus' = JStr("succeeded")
           /\ extract_out'.val = poll_resp'.json
      /\ IsBackendFailed(extract_out') =>
           pc = "get" /\ PollStatus' = JStr("failed")
      /\ IsPollTimeout(extract_out') =>
           /\ pc = "poll" /\ now - start_time > MAX_WAIT_SECONDS
           /\ nGet' = nGet
      /\ pc \in {"poll", "get", "sleep"} =>
           /\ response.status_code = 202
           /\ pc' \in {"poll", "get", "sleep", "done"}
    ]_vars

C17_Witness ==
  /\ pc = "done" /\ nSleep >= 1 /\ nGet = nSleep + 1
  /\ extract_out.kind = "return"
  /\ PollStatus = JStr("succeeded")

(* C18: when a poll response has status "failed", the BackendFailed error
   raised by extract_invoice carries the error detail the backend supplied in
   that response. *)
C18_FailedCarriesDetail ==
  /\ pc = "done" /\ IsBackendFailed(extract_out)
  /\ PollStatus = JStr("failed") /\ "error" \in DOMAIN poll_resp.json.v
  => extract_out.val \in {poll_resp.json, poll_resp.json.v["error"]}

(* the outcome is a network failure of a request: the exception of the HTTP
   library, which is none of the error kinds the code raises itself *)
IsTransportError(o) ==
  /\ o.kind = "raise" /\ o.exc = "ConnectionError"
  /\ ~IsBackendRejected(o) /\ ~IsBackendFailed(o) /\ ~IsPollTimeout(o)
  /\ ~IsConfigError(o) /\ ~IsEmptyInput(o)

(* C19: a network failure of the POST or of a GET ends extract_invoice with
   TransportError, a kind different from BackendRejected, BackendFailed,
   PollTimeout and ConfigError, and the failed request is not retried: no
   request of any kind follows it. *)
C19_TransportErrorEndsCall ==
  [][ /\ pc = "post" /\ response' = NoResponse =>
           /\ pc' = "done" /\ IsTransportError(extract_out')
           /\ outcome' = extract_out'
           /\ nPost' = 1 /\ nGet' = 0
      /\ extract_out'.exc = "ConnectionError" =>
           /\ pc \in {"post", "get"} /\ pc' = "done"
           /\ IsTransportError(extract_out') /\ outcome' = extract_out'
           /\ nPost' = nPost /\ nGet' = nGet /\ nSleep' = nSleep
           /\ post_req' = post_req /\ get_req' = get_req
      /\ pc # "done"
    ]_vars

C19_Witness ==
  /\ pc = "done" /\ IsTransportError(extract_out)
  /\ extract_out.msg = "GET" /\ nGet = 2 /\ nSleep = 1
  /\ outcome = extract_out

(* C20: get_value looks at the slots in the order string, number, date,
   currency, array, object and returns the value of the first of them the field
   carries (for the currency slot its amount), whatever the order of the keys
   and however many slots the field carries. *)
C20_SlotPrecedence ==
  LET order == <<"valueString", "valueNumber", "valueDate",
                 "valueCurrency", "valueArray", "valueObject">>
  IN /\ norm_call.fn = "get_value" /\ norm_result # NoOutcome
     /\ norm_call.arg.t = "dict"
     /\ \E i \in 1..6 : order[i] \in DOMAIN norm_call.arg.v
     => LET f == norm_call.arg.v
            i == CHOOSE n \in 1..6 :
                   /\ order[n] \in DOMAIN f
                   /\ \A m \in 1..(n - 1) : order[m] \notin DOMAIN f
            c == f[order[i]]
        IN /\ norm_result.kind = "return"
           /\ order[i] # "valueCurrency" => norm_result.val = c
           /\ order[i] = "valueCurrency" /\ c.t = "dict" =>
                norm_result.val = IF "amount" \in DOMAIN c.v THEN c.v["amount"] ELSE JNull

(* the entries of the Items array of a raw result, <<>> when Items is absent
   or unwraps to null *)
ItemEntries(raw) ==
  IF "Items" \notin DOMAIN FieldsOf(raw) THEN <<>>
  ELSE LET g == get_value(FieldsOf(raw)["Items"]) IN
       IF g.kind = "return" /\ g.val.t = "list" THEN g.val.v ELSE <<>>

(* Items is absent, unwraps to null or unwraps to an array *)
ItemsIsArray(raw) ==
  \/ "Items" \notin DOMAIN FieldsOf(raw)
  \/ LET g == get_value(FieldsOf(raw)["Items"]) IN
     g.kind = "return" /\ g.val.t \in {"null", "list"}

(* the array entry unwraps to a non-null object *)
UnwrapsToObject(e) ==
  get_value(e).kind = "return" /\ get_value(e).val.t = "dict"

(* C21: for every raw result normalize_invoice accepts, the record's items
   sequence is present, empty when Items is absent or unwraps to null, holds
   one line item per array entry that unwraps to a non-null object, in the
   original order, nothing for entries that unwrap to null, and never more
   items than array entries. *)
C21_ItemsPerObjectEntry ==
  /\ norm_call.fn = "normalize_invoice" /\ norm_result.kind = "return"
  /\ WellFormed(norm_call.arg) /\ ItemsIsArray(norm_call.arg)
  => LET q == ItemEntries(norm_call.arg)
         objs == {i \in 1..Len(q) : UnwrapsToObject(q[i])}
         items == norm_result.val.v["items"]
     IN /\ items.t = "list"
        /\ Len(items.v) <= Len(q)
        /\ Len(items.v) = Cardinality(objs)
        /\ \A i \in objs :
             LET k == Cardinality({j \in objs : j <= i}) IN
             k <= Len(items.v) =>
               items.v[k].v["description"] = GetField(get_value(q[i]).val, "Description").val

(* C22: the timeout is checked only at the top of a poll iteration and never
   interrupts a GET in flight: the response of a GET that was issued within the
   budget is classified when it arrives, so a "succeeded" or "failed" response
   arriving after the budget has run out still gives success or BackendFailed,
   not PollTimeout; an iteration whose elapsed time equals the budget exactly
   still issues its GET. *)
C22_TimeoutOnlyAtLoopTop ==
  [][ /\ GetAnswered /\ PollStatus' = JStr("succeeded") =>
           /\ extract_out' = Ret(poll_resp'.json)
           /\ pc' = "done"
      /\ GetAnswered /\ PollStatus' = JStr("failed") =>
           IsBackendFailed(extract_out') /\ pc' = "done"
      /\ pc = "get" => ~IsPollTimeout(extract_out') /\ elapsed' = elapsed
      /\ IsPollTimeout(extract_out') => pc = "poll" /\ now' = now
      /\ pc = "poll" /\ now - start_time = MAX_WAIT_SECONDS =>
           /\ pc' = "get" /\ nGet' = nGet + 1
           /\ extract_out' = NoOutcome
    ]_vars

C22_Witness ==
  /\ pc = "done" /\ extract_out.kind = "return"
  /\ PollStatus = JStr("succeeded")
  /\ elapsed = MAX_WAIT_SECONDS
  /\ now - start_time > MAX_WAIT_SECONDS

(* C23: when every request eventually returns and every sleep advances the
   clock by at least the poll interval, every call of extract_invoice
   eventually ends, whatever the backend answers, after at most
   MAX_WAIT_SECONDS / POLL_INTERVAL + 1 GET requests. *)
C23_TerminatesWithinBudget ==
  /\ <>(pc = "done")
  /\ [](nGet <= MAX_WAIT_SECONDS \div POLL_INTERVAL + 1)

C23_Witness ==
  /\ pc = "done" /\ IsPollTimeout(extract_out)
  /\ nGet = MAX_WAIT_SECONDS \div POLL_INTERVAL + 1
  /\ nSleep = nGet

(* C24: an execution of extract_invoice issues at most one POST, before every
   GET; a GET is issued only after the POST was answered 202 with an operation
   location; every GET goes to exactly that location with the API key of the
   POST; consecutive GETs are separated by exactly one sleep. *)
C24_OnePostThenPolls ==
  /\ nPost <= 1
  /\ nPost = 0 => nGet = 0 /\ get_req = NoRequest
  /\ nGet >= 1 =>
       /\ nPost = 1 /\ post_req.method = "POST"
       /\ response.status_code = 202
       /\ "Operation-Location" \in DOMAIN response.headers
       /\ response.headers["Operation-Location"] # ""
       /\ get_req.method = "GET"
       /\ get_req.url = response.headers["Operation-Location"]
       /\ get_req.key = post_req.key
  /\ nGet = 0 => get_req = NoRequest /\ nSleep = 0
  /\ pc \in {"get", "sleep"} => nSleep = nGet - 1
  /\ pc = "poll" => nSleep = nGet
  /\ nSleep \in {nGet, nGet - 1} \/ nGet = 0

C24_Witness ==
  /\ pc = "get" /\ nPost = 1 /\ nGet = 3 /\ nSleep = 2
  /\ get_req.url = "https://op" /\ get_req.key = post_req.key
  /\ post_req.key = "key"

(* C25: when two invocations of process_invoice_bytes run concurrently, in any
   interleaving, each polls only the operation location its own submission was
   given, measures the timeout from its own start time, and ends as it would
   alone against the same answers; no step of one changes the state of the
   other. *)
C25_InvocationsIsolated ==
  [][ /\ \A p \in Calls :
           /\ net'.data[p] \in {<<>>, inv'[p].pdf_bytes}
           /\ net'.polled[p] \subseteq {net'.issued[p]} \ {""}
           /\ inv'[p].pc \in {"poll", "get", "sleep"} =>
                /\ inv'[p].operation_url = net'.issued[p]
                /\ inv'[p].start_time = net'.accepted[p]
           /\ inv'[p].pc = "get" =>
                /\ inv'[p].target = net'.issued[p]
                /\ inv'[p].elapsed <= MAX_WAIT_SECONDS
           /\ IsPollTimeout(inv'[p].out) /\ ~IsPollTimeout(inv[p].out) =>
                /\ inv[p].pc = "poll"
                /\ now - net.accepted[p] > MAX_WAIT_SECONDS
                /\ inv'[p].elapsed = now - net.accepted[p]
           /\ inv'[p].out.kind = "return" =>
                inv'[p].out = normalize_invoice(ResultOf(net'.issued[p]))
           /\ inv[p].pc = "done" => inv'[p] = inv[p]
      /\ \A p, q \in Calls : p # q /\ inv'[p] # inv[p] => inv'[q] = inv[q]
    ]_vars

C25_Witness ==
  /\ inv[1].pc = "done" /\ inv[2].pc = "get"
  /\ IsPollTimeout(inv[1].out)
  /\ inv[1].start_time = 0 /\ inv[2].start_time = 30
  /\ net.issued[1] = "https://op2" /\ net.issued[2] = "https://op1"
  /\ inv[2].target = "https://op1" /\ inv[2].elapsed = 31
  /\ net.polled[1] = {"https://op2"}

(* C26: the HTTP front ends map the error kinds of the core to status classes:
   EmptyInput and ConfigError give a client error status (4xx); backend,
   transport and timeout errors give a server or upstream error status (5xx);
   in particular a request that fails because the endpoint or the key is not
   configured is answered with a client error status. *)
C26_ErrorKindsToStatusClasses ==
  pc = "responded" /\ nProcess = 1 =>
    LET fastapi == http_resp.status
        function == FunctionMainStatus(extract_out, outcome)
    IN /\ IsEmptyInput(outcome) \/ IsConfigError(outcome) =>
            fastapi \in 400..499 /\ function \in 400..499
       /\ \/ IsBackendRejected(outcome) \/ IsBackendFailed(outcome)
          \/ IsPollTimeout(outcome) \/ IsTransportError(outcome) =>
            fastapi \in 500..599 /\ function \in 500..599

====
